---- MODULE Spec2Model ----
(***************************************************************************)
(* markdown-deck: the image zoom viewport (ImageZoomModal.tsx), the asset  *)
(* table and its object URLs (App.tsx) and the slide segmentation          *)
(* (PresentationView.tsx), each as a state machine of its handlers.        *)
(*                                                                         *)
(* Numbers of the viewport are exact rationals <<n, d>> in lowest terms    *)
(* with d > 0 (the code computes in IEEE doubles; rounding is not          *)
(* modelled).  Text is a sequence of one-character strings.                *)
(***************************************************************************)
EXTENDS Integers, Sequences, FiniteSets, TLC

VARIABLES
    \* ImageZoomModal
    zoomedImageUrl,   \* App state: the image shown in the zoom view, or NoSrc
    dims,             \* layout of the open view: container and image boxes
    scale,            \* useState(1)
    position,         \* useState({x: 0, y: 0})
    isDragging,       \* isDraggingRef.current
    startDragPos,     \* startDragPosRef.current
    lastEvent,        \* history: the reset or zoom-button press handled last
    dragStart,        \* history: the press that began the drag in progress
    \* PresentationView
    markdownFiles,    \* the markdownFiles prop: a sequence of [id, content]
    slides,           \* useState<string[]>([])
    currentSlideIndex,\* useState(0)
    effectPending,    \* the slide-generation effect has yet to run for markdownFiles
    \* App: the asset table
    assetMap,         \* useState<AssetMap>(new Map()): key -> object URL (NoUrl: absent)
    nextUrl,          \* the object URL the next URL.createObjectURL returns
    revoked,          \* per object URL, the number of URL.revokeObjectURL calls on it
    appMounted,       \* the App component is mounted
    shownImg,         \* the img element a MarkdownPreview renders: its reference and src
    \* App: the documents; DraggableFileList
    isPresenting,     \* useState(false)
    error,            \* useState<string | null>(null)
    pendingReads,     \* upload batches whose Promise.all has yet to settle
    nextId,           \* stands for the `name-Date.now()-Math.random()` of the next document
    draggingItem,     \* useState<number | null>(null)
    dragOverItem,     \* dragOverItem.current
    lastDocEvent      \* history: the settled batch, reorder or slide effect handled last

vpVars == <<zoomedImageUrl, dims, scale, position, isDragging, startDragPos,
            lastEvent, dragStart>>
pvVars == <<markdownFiles, slides, currentSlideIndex, effectPending>>
assetVars == <<assetMap, nextUrl, revoked, appMounted, shownImg>>

docState == <<isPresenting, error, pendingReads, nextId, draggingItem, dragOverItem>>
docVars == <<docState, lastDocEvent>>

vars == <<vpVars, pvVars, assetVars, docVars>>

----------------------------------------------------------------------------
(* Bounds of the model *)

\* largest denominator of a scale or offset the model follows
MaxDen == 5
\* largest denominator of an offset the model follows
MaxPosDen == 2
\* largest offset, in pixels on either axis, the model follows
MaxPan == 2
\* a pointer is at most MaxCoord pixels right of and below the container's
\* top left corner
MaxCoord == 1

\* most documents of a deck
MaxDocs == 2
\* most characters of a deck's documents together
MaxTotal == 4
\* most object URLs created
MaxUrls == 3
\* most files of one asset upload
MaxBatch == 2
\* most documents ever read, in flight or added
MaxIds == 4
\* most files of one markdown upload
MaxUpload == 2

----------------------------------------------------------------------------
(* Exact rational arithmetic *)

RECURSIVE GCD(_, _)
GCD(a, b) == IF b = 0 THEN a ELSE GCD(b, a % b)

Abs(n) == IF n < 0 THEN -n ELSE n

Rat(n, d) ==
    LET g == GCD(Abs(n), Abs(d))
        s == IF d < 0 THEN -1 ELSE 1
    IN  <<(s * n) \div g, (s * d) \div g>>

RInt(n) == <<n, 1>>
RZero == <<0, 1>>
ROne == <<1, 1>>
RAdd(a, b) == Rat(a[1] * b[2] + b[1] * a[2], a[2] * b[2])
RSub(a, b) == Rat(a[1] * b[2] - b[1] * a[2], a[2] * b[2])
RMul(a, b) == Rat(a[1] * b[1], a[2] * b[2])
RDiv(a, b) == Rat(a[1] * b[2], a[2] * b[1])
RNeg(a) == <<-a[1], a[2]>>
RLe(a, b) == a[1] * b[2] <= b[1] * a[2]
RLt(a, b) == a[1] * b[2] < b[1] * a[2]
RMax(a, b) == IF RLe(a, b) THEN b ELSE a
RMin(a, b) == IF RLe(a, b) THEN a ELSE b
RAbs(a) == <<Abs(a[1]), a[2]>>

Point(x, y) == [x |-> x, y |-> y]
Origin == Point(RZero, RZero)

\* the model follows a value only while its denominator stays small
Small(a) == a[2] <= MaxDen
SmallCoord(a) == a[2] <= MaxPosDen /\ RLe(RAbs(a), RInt(MaxPan))
SmallPoint(p) == SmallCoord(p.x) /\ SmallCoord(p.y)

----------------------------------------------------------------------------
(* ImageZoomModal.tsx *)

MIN_SCALE == <<1, 2>>
MAX_SCALE == <<8, 1>>
ZOOM_SENSITIVITY == <<1, 200>>

NoSrc == "null"
Srcs == {"img1", "img2"}

\* e.button: 0 primary, 1 auxiliary, 2 secondary
Buttons == {0, 1, 2}

Coords == 0..MaxCoord

\* WheelEvent.deltaY; the zoom factor is 1 - deltaY / 200
DeltaYs == {-200, 100, 400}

\* containerRef / imageRef boxes: offsetWidth, offsetHeight of the container
\* and of the image, and the container's getBoundingClientRect() left, top
Layouts ==
    { [cw |-> 4, ch |-> 8, iw |-> 1, ih |-> 1, left |-> 0, top |-> 0],
      [cw |-> 8, ch |-> 1, iw |-> 1, ih |-> 2, left |-> 2, top |-> 1] }

\* clientX / clientY of a pointer event on the container: a point of its box,
\* on the diagonal from its top left corner
Pointers ==
    {Point(dims.left + c, dims.top + c) : c \in {c \in Coords : c <= dims.cw /\ c <= dims.ch}}

\* lastEvent records a reset, a change of src or a zoom-button press with the
\* scale it started from; a press that directly follows a press in the other
\* direction also records the scale that one started from (pairFrom)
NoEvent == [kind |-> "none"]
NoScale == <<0, 1>>
\* no drag is in progress
NoDrag == [phase |-> "idle"]
\* a zoom has moved the image in the course of the drag, if there is one
zoomedInDrag(ds) == IF ds = NoDrag THEN ds ELSE [ds EXCEPT !.phase = "zoomed"]
\* the pointer has moved in the course of the drag
movedInDrag(ds) ==
    IF ds # NoDrag /\ ds.phase = "zoomed" THEN [ds EXCEPT !.phase = "movedAfterZoom"] ELSE ds

\* clampPosition returning its argument as it is (the early return of line 42
\* taken always)
clampPosition_unclamped(pos, currentScale) == pos

clampPosition(pos, currentScale) ==
    LET overhangX == RMax(RZero, RDiv(RSub(RMul(RInt(dims.iw), currentScale), RInt(dims.cw)), RInt(2)))
        overhangY == RMax(RZero, RDiv(RSub(RMul(RInt(dims.ih), currentScale), RInt(dims.ch)), RInt(2)))
    IN  Point(RMax(RNeg(overhangX), RMin(overhangX, pos.x)),
              RMax(RNeg(overhangY), RMin(overhangY, pos.y)))

clampScale(s) == RMax(MIN_SCALE, RMin(MAX_SCALE, s))

wheelFactor(deltaY) == RSub(ROne, RMul(RInt(deltaY), ZOOM_SENSITIVITY))

\* zoom-out by 0.75 instead of 0.8
buttonFactor_threeQuarters(direction) == IF direction = "in" THEN <<5, 4>> ELSE <<3, 4>>

buttonFactor(direction) == IF direction = "in" THEN <<5, 4>> ELSE <<4, 5>>

\* new_offset = anchor - ((anchor - old_offset) / old_scale) * new_scale
zoomAround(anchor, pos, oldScale, newScale) ==
    RSub(anchor, RMul(RDiv(RSub(anchor, pos), oldScale), newScale))

\* the view is opened: onImageClick sets zoomedImageUrl, the modal mounts with
\* its initial state and the reset effect runs
OpenZoom ==
    /\ zoomedImageUrl = NoSrc
    /\ \E s \in Srcs, l \in Layouts :
        /\ zoomedImageUrl' = s
        /\ dims' = l
    /\ scale' = ROne
    /\ position' = Origin
    /\ isDragging' = FALSE
    /\ startDragPos' = Origin
    /\ lastEvent' = [kind |-> "open"]
    /\ dragStart' = NoDrag
    /\ UNCHANGED <<pvVars, assetVars, docVars>>


\* onClose: the modal unmounts and its state is dropped
CloseZoom ==
    /\ zoomedImageUrl # NoSrc
    /\ zoomedImageUrl' = NoSrc
    /\ scale' = ROne
    /\ position' = Origin
    /\ isDragging' = FALSE
    /\ startDragPos' = Origin
    /\ lastEvent' = NoEvent
    /\ dragStart' = NoDrag
    /\ UNCHANGED dims
    /\ UNCHANGED <<pvVars, assetVars, docVars>>


\* the src prop changes while the view stays mounted
SrcChange ==
    /\ zoomedImageUrl # NoSrc
    /\ \E s \in Srcs \ {zoomedImageUrl} : zoomedImageUrl' = s
    /\ scale' = ROne
    /\ position' = Origin
    /\ lastEvent' = [kind |-> "src", from |-> scale]
    /\ UNCHANGED <<dims, isDragging, startDragPos, dragStart>>
    /\ UNCHANGED <<pvVars, assetVars, docVars>>


handleWheel(deltaY, clientX, clientY) ==
    LET zoomFactor == wheelFactor(deltaY)
        newScale == clampScale(RMul(scale, zoomFactor))
        mouseX == RInt(clientX - dims.left)
        mouseY == RInt(clientY - dims.top)
        newPos == Point(zoomAround(mouseX, position.x, scale, newScale),
                        zoomAround(mouseY, position.y, scale, newScale))
        clamped == clampPosition(newPos, newScale)
    IN  /\ zoomedImageUrl # NoSrc
        /\ Small(newScale) /\ SmallPoint(clamped)
        /\ scale' = newScale
        /\ position' = clamped
        /\ lastEvent' = NoEvent
        /\ dragStart' = IF clamped # position THEN zoomedInDrag(dragStart) ELSE dragStart
        /\ UNCHANGED <<zoomedImageUrl, dims, isDragging, startDragPos>>
        /\ UNCHANGED <<pvVars, assetVars, docVars>>


handleMouseDown(button, clientX, clientY) ==
    /\ zoomedImageUrl # NoSrc
    /\ IF RLe(scale, ROne) /\ button = 0
       THEN UNCHANGED <<isDragging, startDragPos, dragStart>>
       ELSE /\ isDragging' = TRUE
            /\ startDragPos' = Point(RSub(RInt(clientX), position.x),
                                     RSub(RInt(clientY), position.y))
            /\ dragStart' = [phase |-> "pressed",
                             pointer |-> Point(RInt(clientX), RInt(clientY)),
                             offset |-> position]
    /\ lastEvent' = NoEvent
    /\ UNCHANGED <<zoomedImageUrl, dims, scale, position>>
    /\ UNCHANGED <<pvVars, assetVars, docVars>>


\* a handleMouseMove that leaves the image where it is
handleMouseMove_still(clientX, clientY) ==
    /\ zoomedImageUrl # NoSrc
    /\ position' = clampPosition(position, scale)
    /\ lastEvent' = NoEvent
    /\ dragStart' = movedInDrag(dragStart)
    /\ UNCHANGED <<zoomedImageUrl, dims, scale, isDragging, startDragPos>>
    /\ UNCHANGED <<pvVars, assetVars, docVars>>

handleMouseMove(clientX, clientY) ==
    /\ zoomedImageUrl # NoSrc
    /\ UNCHANGED <<zoomedImageUrl, dims, scale, isDragging, startDragPos>>
    /\ lastEvent' = NoEvent
    /\ dragStart' = movedInDrag(dragStart)
    /\ IF ~isDragging
       THEN UNCHANGED position
       ELSE LET newPos == Point(RSub(RInt(clientX), startDragPos.x),
                                RSub(RInt(clientY), startDragPos.y))
                clamped == clampPosition(newPos, scale)
            IN  /\ SmallPoint(clamped)
                /\ position' = clamped
    /\ UNCHANGED <<pvVars, assetVars, docVars>>


handleMouseUpOrLeave ==
    /\ zoomedImageUrl # NoSrc
    /\ isDragging' = FALSE
    /\ lastEvent' = NoEvent
    /\ dragStart' = NoDrag
    /\ UNCHANGED <<zoomedImageUrl, dims, scale, position, startDragPos>>
    /\ UNCHANGED <<pvVars, assetVars, docVars>>


handleZoom(direction) ==
    LET zoomFactor == buttonFactor(direction)
        newScale == clampScale(RMul(scale, zoomFactor))
        centerX == RDiv(RInt(dims.cw), RInt(2))
        centerY == RDiv(RInt(dims.ch), RInt(2))
        newPos == Point(zoomAround(centerX, position.x, scale, newScale),
                        zoomAround(centerY, position.y, scale, newScale))
        clamped == clampPosition(newPos, newScale)
    IN  /\ zoomedImageUrl # NoSrc
        /\ Small(newScale) /\ SmallPoint(clamped)
        /\ scale' = newScale
        /\ position' = clamped
        /\ lastEvent' = [kind |-> "zoom", dir |-> direction, from |-> scale,
                         pairFrom |-> IF lastEvent.kind = "zoom" /\ lastEvent.dir # direction
                                      THEN lastEvent.from ELSE NoScale]
        /\ dragStart' = IF clamped # position THEN zoomedInDrag(dragStart) ELSE dragStart
        /\ UNCHANGED <<zoomedImageUrl, dims, isDragging, startDragPos>>
        /\ UNCHANGED <<pvVars, assetVars, docVars>>


\* a reset that forgets the offset
handleReset_keepPosition ==
    /\ zoomedImageUrl # NoSrc
    /\ scale' = ROne
    /\ lastEvent' = [kind |-> "reset", from |-> scale]
    /\ UNCHANGED <<zoomedImageUrl, dims, position, isDragging, startDragPos, dragStart>>
    /\ UNCHANGED <<pvVars, assetVars, docVars>>


handleReset ==
    /\ zoomedImageUrl # NoSrc
    /\ scale' = ROne
    /\ position' = Origin
    /\ lastEvent' = [kind |-> "reset", from |-> scale]
    /\ UNCHANGED <<zoomedImageUrl, dims, isDragging, startDragPos, dragStart>>
    /\ UNCHANGED <<pvVars, assetVars, docVars>>


\* the img element: centred in the container by the flex box, drawn with
\* transform: translate(position) scale(scale) about its own centre, so the
\* image point q (measured from the image centre) is drawn at
\* centre + position + scale * q in container coordinates
containerCenter == Point(RDiv(RInt(dims.cw), RInt(2)), RDiv(RInt(dims.ch), RInt(2)))

imagePointAt(a, pos, s) ==
    Point(RDiv(RSub(RSub(a.x, containerCenter.x), pos.x), s),
          RDiv(RSub(RSub(a.y, containerCenter.y), pos.y), s))

ViewportInit ==
    /\ zoomedImageUrl = NoSrc
    /\ dims = CHOOSE l \in Layouts : l.left = 0
    /\ scale = ROne
    /\ position = Origin
    /\ isDragging = FALSE
    /\ startDragPos = Origin
    /\ lastEvent = NoEvent
    /\ dragStart = NoDrag

ViewportNext ==
    \/ OpenZoom
    \/ CloseZoom
    \/ SrcChange
    \/ \E d \in DeltaYs, p \in Pointers : handleWheel(d, p.x, p.y)
    \/ \E b \in Buttons, p \in Pointers : handleMouseDown(b, p.x, p.y)
    \/ \E p \in Pointers : handleMouseMove(p.x, p.y)
    \/ handleMouseUpOrLeave
    \/ \E dir \in {"in", "out"} : handleZoom(dir)
    \/ handleReset

----------------------------------------------------------------------------
(* Text: a string is a sequence of one-character strings *)

\* what String.prototype.trim strips: WhiteSpace and LineTerminator
WhiteSpace == {" ", "\t", "\n", "\r"}
\* what ^ follows in a regular expression with the m flag
LineTerminator == {"\n", "\r"}

RECURSIVE trimStart(_)
trimStart(s) ==
    IF s # <<>> /\ Head(s) \in WhiteSpace THEN trimStart(Tail(s)) ELSE s

RECURSIVE trimEnd(_)
trimEnd(s) ==
    IF s # <<>> /\ s[Len(s)] \in WhiteSpace
    THEN trimEnd(SubSeq(s, 1, Len(s) - 1)) ELSE s

trim(s) == trimEnd(trimStart(s))

startsWith(s, prefix) ==
    Len(s) >= Len(prefix) /\ SubSeq(s, 1, Len(prefix)) = prefix

\* Array.prototype.join
RECURSIVE join(_, _)
join(parts, sep) ==
    IF parts = <<>> THEN <<>>
    ELSE IF Len(parts) = 1 THEN parts[1]
    ELSE parts[1] \o sep \o join(Tail(parts), sep)

----------------------------------------------------------------------------
(* PresentationView.tsx: slide generation *)

\* no document event has just been handled
NoDocEvent == [kind |-> "none"]

\* the characters documents of the model are written in
Chars == {"#", " ", "\n", "a"}

\* the separator of join('\n\n')
fileSeparator == <<"\n", "\n">>

\* /(?=^#{1,2} )/m at index q (from 0) of s: with the m flag ^ matches at the
\* start of s and after a line terminator; #{1,2} followed by a space
headingAhead_unanchored(s, q) ==
    \/ q + 2 <= Len(s) /\ s[q + 1] = "#" /\ s[q + 2] = " "
    \/ q + 3 <= Len(s) /\ s[q + 1] = "#" /\ s[q + 2] = "#" /\ s[q + 3] = " "

\* /(?=^#+ )/m: a heading of any level
headingAhead_anyLevel(s, q) ==
    /\ q = 0 \/ s[q] \in LineTerminator
    /\ \E n \in 1..(Len(s) - q - 1) :
          /\ \A i \in 1..n : s[q + i] = "#"
          /\ s[q + n + 1] = " "

headingAhead(s, q) ==
    /\ q = 0 \/ s[q] \in LineTerminator
    /\ \/ q + 2 <= Len(s) /\ s[q + 1] = "#" /\ s[q + 2] = " "
       \/ q + 3 <= Len(s) /\ s[q + 1] = "#" /\ s[q + 2] = "#" /\ s[q + 3] = " "

\* String.prototype.split with that separator (ECMAScript RegExp.prototype
\* [@@split]): p is the start of the piece being collected, q the index
\* tried; the separator matches the empty string, so a match at q = p splits
\* nothing and a match at q > p ends the piece s[p, q)
RECURSIVE splitFrom(_, _, _)
splitFrom(s, p, q) ==
    IF q >= Len(s) THEN <<SubSeq(s, p + 1, Len(s))>>
    ELSE IF headingAhead(s, q) /\ q # p
         THEN <<SubSeq(s, p + 1, q)>> \o splitFrom(s, q, q)
         ELSE splitFrom(s, p, q + 1)

\* a split that drops what precedes the first heading line
splitSlides_discardLeading(s) == IF s = <<>> THEN << <<>> >> ELSE Tail(splitFrom(s, 0, 0))

splitSlides(s) == IF s = <<>> THEN << <<>> >> ELSE splitFrom(s, 0, 0)

\* .filter(slide => slide.trim() !== '') that keeps everything
nonBlank_keepAll(segments) == segments

\* .filter(slide => slide.startsWith('#')): a filter that keeps heading-led
\* segments only
nonBlank_headingLed(segments) == SelectSeq(segments, LAMBDA slide : startsWith(slide, <<"#">>))

\* .filter(slide => slide.trim() !== '')
nonBlank(segments) == SelectSeq(segments, LAMBDA slide : trim(slide) # <<>>)

\* markdownFiles.map(f => f.content).join with one newline
combinedContent_oneNewline(files) ==
    join([i \in 1..Len(files) |-> files[i].content], <<"\n">>)

\* markdownFiles.map(f => f.content).join('')
combinedContent_noSeparator(files) ==
    join([i \in 1..Len(files) |-> files[i].content], <<>>)

\* markdownFiles.map(f => f.content).join('\n\n')
combinedContent(files) ==
    join([i \in 1..Len(files) |-> files[i].content], fileSeparator)

\* the slides the effect sets
generatedSlides(files) ==
    LET combined == combinedContent(files)
        generated == nonBlank(splitSlides(combined))
    IN  IF Len(generated) > 0 THEN generated
        ELSE IF trim(combined) # <<>> THEN <<combined>>
        ELSE <<>>

\* the branch of the effect's if / else if / else that sets the slides
slidesBranch(files) ==
    LET combined == combinedContent(files)
        generated == nonBlank(splitSlides(combined))
    IN  IF Len(generated) > 0 THEN "split"
        ELSE IF trim(combined) # <<>> THEN "fallback"
        ELSE "empty"

\* useEffect(..., [markdownFiles]): runs after the mount and after every
\* change of markdownFiles
slideEffect ==
    /\ effectPending
    /\ slides' = generatedSlides(markdownFiles)
    /\ currentSlideIndex' = 0
    /\ effectPending' = FALSE
    /\ lastDocEvent' = [kind |-> "effect", fromIndex |-> currentSlideIndex,
                        branch |-> slidesBranch(markdownFiles)]
    /\ UNCHANGED <<markdownFiles, docState>>
    /\ UNCHANGED <<vpVars, assetVars>>

\* setCurrentSlideIndex(prev => Math.max(0, prev - 1)); pending effects run
\* before the next event is handled
goToPrevious ==
    /\ isPresenting /\ ~effectPending
    /\ currentSlideIndex' = IF currentSlideIndex - 1 > 0 THEN currentSlideIndex - 1 ELSE 0
    /\ lastDocEvent' = NoDocEvent
    /\ UNCHANGED <<markdownFiles, slides, effectPending, docState>>
    /\ UNCHANGED <<vpVars, assetVars>>

\* setCurrentSlideIndex(prev => Math.min(totalSlides - 1, prev + 1))
goToNext ==
    /\ isPresenting /\ ~effectPending
    /\ currentSlideIndex' = IF Len(slides) - 1 < currentSlideIndex + 1
                            THEN Len(slides) - 1 ELSE currentSlideIndex + 1
    /\ lastDocEvent' = NoDocEvent
    /\ UNCHANGED <<markdownFiles, slides, effectPending, docState>>
    /\ UNCHANGED <<vpVars, assetVars>>

\* slides[currentSlideIndex] || ''
currentSlideContent ==
    IF currentSlideIndex + 1 \in 1..Len(slides) THEN slides[currentSlideIndex + 1] ELSE <<>>

\* currentSlideContent.startsWith('# '), without the trim
isTitleSlide_noTrim == startsWith(currentSlideContent, <<"#", " ">>)

\* currentSlideContent.trim().startsWith('# ')
isTitleSlide == startsWith(trim(currentSlideContent), <<"#", " ">>)


\* the decks the presentation is mounted with
Texts(n) == UNION {[1..k -> Chars] : k \in 0..n}

RECURSIVE DecksOf(_, _)
DecksOf(n, budget) ==
    IF n = 0 THEN {<<>>}
    ELSE UNION {{<<t>> \o d : d \in DecksOf(n - 1, budget - Len(t))} : t \in Texts(budget)}

ExampleDecks ==
    { << <<"#", " ", "A", "\n", "t", "e", "x", "t", "1">>,
         <<"#", "#", " ", "B", "\n", "t", "e", "x", "t", "2">> >>,
      << <<"n", "o", " ", "h", "e", "a", "d", "i", "n", "g", "s", " ", "h", "e", "r", "e">> >>,
      \* "a\n### b\n#c\nd # e\n## f"
      << <<"a", "\n", "#", "#", "#", " ", "b", "\n", "#", "c", "\n", "d", " ", "#", " ", "e", "\n", "#", "#", " ", "f">> >> }

Decks == UNION {DecksOf(n, MaxTotal) : n \in 0..MaxDocs} \cup ExampleDecks

filesOf(deck) == [i \in 1..Len(deck) |-> [id |-> i, content |-> deck[i]]]

PresentationInit ==
    /\ \E deck \in Decks : markdownFiles = filesOf(deck)
    /\ slides = <<>>
    /\ currentSlideIndex = 0
    /\ effectPending = TRUE

PresentationNext ==
    \/ slideEffect
    \/ goToPrevious
    \/ goToNext

----------------------------------------------------------------------------
(* App.tsx: the asset table and its object URLs *)

NoUrl == 0

\* uploaded files: webkitRelativePath (empty for a file picked alone) and name
AssetFiles ==
    { [webkitRelativePath |-> <<>>, name |-> <<"a">>],
      [webkitRelativePath |-> <<"d", "/", "a">>, name |-> <<"a">>],
      [webkitRelativePath |-> <<" ">>, name |-> <<"b">>],
      [webkitRelativePath |-> <<>>, name |-> <<"d", "a", "t", "a", ":", "a">>] }

\* (file.webkitRelativePath)?.trim() || file.name
assetKey(file) ==
    IF trim(file.webkitRelativePath) # <<>> THEN trim(file.webkitRelativePath)
    ELSE file.name

AssetKeys == {assetKey(f) : f \in AssetFiles}

revokeObjectURL(rev, url) == [rev EXCEPT ![url] = @ + 1]

\* fileArray.forEach of the upload's updater, on [map, rev, next]
RECURSIVE uploadEach(_, _)
uploadEach(files, st) ==
    IF files = <<>> THEN st
    ELSE LET key == assetKey(Head(files))
             rev1 == IF st.map[key] # NoUrl
                     THEN revokeObjectURL(st.rev, st.map[key]) ELSE st.rev
             blobUrl == st.next
         IN  uploadEach(Tail(files),
                        [map |-> [st.map EXCEPT ![key] = blobUrl],
                         rev |-> rev1,
                         next |-> st.next + 1])

\* the cleanup of useEffect(..., [assetMap]) for the table `map`:
\* map.forEach(url => URL.revokeObjectURL(url))
effectCleanup(rev, map) ==
    [u \in DOMAIN rev |->
        IF \E k \in DOMAIN map : map[k] = u THEN rev[u] + 1 ELSE rev[u]]

\* MarkdownPreview.tsx: the image references of the model
Refs ==
    { <<"a">>, <<".", "/", "a">>, <<".", "/", ".", "/", "a">>, <<"c">>, <<"d", "/", "a">>,
      <<"h", "t", "t", "p", ":", "/", "/", "a">>, <<"h", "t", "t", "p", "s", ":", "/", "/", "a">>, <<"/", "/", "a">>,
      <<"d", "a", "t", "a", ":", "a">>, <<>> }

\* no img element is rendered
NoImg == [ref |-> "none"]
\* the src an img is given: the reference as written, or an object URL
asWritten(src) == [written |-> src]
objectUrl(url) == [blob |-> url]

\* assetMap.has(key)
has(map, key) == key \in DOMAIN map /\ map[key] # NoUrl

\* /^(https?:)?\/\//.test(src)
isAbsolute(src) ==
    \/ startsWith(src, <<"/", "/">>)
    \/ startsWith(src, <<"h", "t", "t", "p", ":", "/", "/">>)
    \/ startsWith(src, <<"h", "t", "t", "p", "s", ":", "/", "/">>)

\* the img component looking every reference up, absolute or not
resolveSrc_lookupAll(src, map) ==
    LET cleanedSrc == IF startsWith(src, <<".", "/">>) THEN SubSeq(src, 3, Len(src)) ELSE src
    IN  IF has(map, cleanedSrc) THEN objectUrl(map[cleanedSrc]) ELSE asWritten(src)

\* customComponents.img: the src the img element gets for the reference src
resolveSrc(src, map) ==
    IF src # <<>> /\ ~isAbsolute(src) /\ ~startsWith(src, <<"d", "a", "t", "a", ":">>)
    THEN LET cleanedSrc == IF startsWith(src, <<".", "/">>)
                           THEN SubSeq(src, 3, Len(src)) ELSE src
         IN  IF has(map, cleanedSrc) THEN objectUrl(map[cleanedSrc]) ELSE asWritten(src)
    ELSE asWritten(src)

\* the img element rendered anew with the table `map`
rerendered(img, map) ==
    IF img = NoImg THEN NoImg ELSE [ref |-> img.ref, src |-> resolveSrc(img.ref, map)]

\* a MarkdownPreview renders an image with the reference src
renderImg(src) ==
    /\ appMounted
    /\ shownImg' = [ref |-> src, src |-> resolveSrc(src, assetMap)]
    /\ UNCHANGED <<assetMap, nextUrl, revoked, appMounted>>
    /\ UNCHANGED <<vpVars, pvVars, docVars>>

\* setAssetMap with a new Map: the render that follows replaces the effect, so
\* the cleanup registered for the previous table runs
handleAssetsFolderUpload(files) ==
    /\ appMounted
    /\ nextUrl + Len(files) <= MaxUrls + 1
    /\ IF Len(files) = 0
       THEN UNCHANGED <<assetMap, nextUrl, revoked, shownImg>>
       ELSE LET st == uploadEach(files, [map |-> assetMap, rev |-> revoked, next |-> nextUrl])
            IN  /\ assetMap' = st.map
                /\ nextUrl' = st.next
                /\ revoked' = effectCleanup(st.rev, assetMap)
                /\ shownImg' = rerendered(shownImg, st.map)
    /\ UNCHANGED appMounted
    /\ UNCHANGED <<vpVars, pvVars, docVars>>


handleDeleteAsset(assetName) ==
    /\ appMounted
    /\ LET url == assetMap[assetName]
           rev1 == IF url # NoUrl THEN revokeObjectURL(revoked, url) ELSE revoked
       IN  /\ assetMap' = [assetMap EXCEPT ![assetName] = NoUrl]
           /\ revoked' = effectCleanup(rev1, assetMap)
           /\ shownImg' = rerendered(shownImg, assetMap')
    /\ UNCHANGED <<nextUrl, appMounted>>
    /\ UNCHANGED <<vpVars, pvVars, docVars>>


\* the App unmounts: the cleanup of the current effect runs
unmountApp ==
    /\ appMounted
    /\ appMounted' = FALSE
    /\ revoked' = effectCleanup(revoked, assetMap)
    /\ shownImg' = NoImg
    /\ UNCHANGED <<assetMap, nextUrl>>
    /\ UNCHANGED <<vpVars, pvVars, docVars>>


Batches == UNION {[1..n -> AssetFiles] : n \in 0..MaxBatch}

AssetsInit ==
    /\ assetMap = [k \in AssetKeys |-> NoUrl]
    /\ nextUrl = 1
    /\ revoked = [u \in 1..MaxUrls |-> 0]
    /\ appMounted = TRUE
    /\ shownImg = NoImg

AssetsNext ==
    \/ \E src \in Refs : renderImg(src)
    \/ \E files \in Batches : handleAssetsFolderUpload(files)
    \/ \E name \in {k \in AssetKeys : assetMap[k] # NoUrl} : handleDeleteAsset(name)
    \/ unmountApp

----------------------------------------------------------------------------

(* App.tsx: the documents; DraggableFileList.tsx *)

NoError == "null"
ReadError == "An error occurred while reading one or more Markdown files."

\* draggingItem and dragOverItem.current when null
NoIndex == -1

\* a file of a markdown upload: whether file.name ends with '.md', the text
\* FileReader yields, and whether the read succeeds
UploadFile(md, content, readable) ==
    [md |-> md, content |-> content, readable |-> readable]

fileA == UploadFile(TRUE, <<"#", " ", "a">>, TRUE)
fileB == UploadFile(TRUE, <<"b">>, TRUE)
fileUnreadable == UploadFile(TRUE, <<>>, FALSE)
fileNotMd == UploadFile(FALSE, <<"b">>, TRUE)
\* an empty markdown file
fileEmpty == UploadFile(TRUE, <<>>, TRUE)

\* the upload batches of the model (FileUpload hands over non-empty lists
\* only), each cut to at most MaxUpload files
Uploads ==
    { SubSeq(files, 1, IF Len(files) < MaxUpload THEN Len(files) ELSE MaxUpload) :
        files \in { <<fileA>>, <<fileB, fileA>>, <<fileA, fileUnreadable>>,
                    <<fileNotMd, fileEmpty>> } }

RECURSIVE inFlight(_)
\* the number of files being read
inFlight(batches) ==
    IF batches = <<>> THEN 0 ELSE Len(Head(batches)) + inFlight(Tail(batches))

\* the sequence without its k-th element (k from 1)
removeAt(s, k) == SubSeq(s, 1, k - 1) \o SubSeq(s, k + 1, Len(s))

\* an effect with dependencies []: due after the mount only
propChanged_never == effectPending' = effectPending

\* the effect's dependencies [markdownFiles]: a mounted PresentationView gets
\* a new markdownFiles array, and the effect is due
propChanged == effectPending' = isPresenting

\* handleMarkdownUpload up to Promise.all: the '.md' files start to be read
handleMarkdownUpload(files) ==
    LET filePromises == SelectSeq(files, LAMBDA file : file.md)
    IN  /\ ~isPresenting /\ draggingItem = NoIndex
        /\ (nextId - 1) + inFlight(pendingReads) + Len(filePromises) <= MaxIds
        /\ pendingReads' = Append(pendingReads, filePromises)
        /\ lastDocEvent' = NoDocEvent
        /\ UNCHANGED <<isPresenting, error, nextId, draggingItem, dragOverItem>>
        /\ UNCHANGED <<vpVars, pvVars, assetVars>>

\* a settling that puts the new documents first: [...newFiles, ...prev]
readsSettle_prepend(n) ==
    LET batch == pendingReads[n]
        newFiles == [i \in 1..Len(batch) |->
                        [id |-> nextId + i - 1, content |-> batch[i].content]]
    IN  /\ ~effectPending
        /\ pendingReads' = removeAt(pendingReads, n)
        /\ IF \A i \in 1..Len(batch) : batch[i].readable
           THEN /\ markdownFiles' = newFiles \o markdownFiles
                /\ error' = NoError
                /\ nextId' = nextId + Len(batch)
                /\ propChanged
           ELSE /\ error' = ReadError
                /\ UNCHANGED <<markdownFiles, nextId, effectPending>>
        /\ lastDocEvent' = [kind |-> "settled", before |-> markdownFiles, batch |-> batch]
        /\ UNCHANGED <<isPresenting, draggingItem, dragOverItem>>
        /\ UNCHANGED <<slides, currentSlideIndex>>
        /\ UNCHANGED <<vpVars, assetVars>>

\* Promise.all(filePromises) settles for the n-th batch in flight: .then
\* appends every document when every read succeeded, .catch sets the error
\* when a read failed
readsSettle(n) ==
    LET batch == pendingReads[n]
        newFiles == [i \in 1..Len(batch) |->
                        [id |-> nextId + i - 1, content |-> batch[i].content]]
    IN  /\ ~effectPending
        /\ pendingReads' = removeAt(pendingReads, n)
        /\ IF \A i \in 1..Len(batch) : batch[i].readable
           THEN /\ markdownFiles' = markdownFiles \o newFiles
                /\ error' = NoError
                /\ nextId' = nextId + Len(batch)
                /\ propChanged
           ELSE /\ error' = ReadError
                /\ UNCHANGED <<markdownFiles, nextId, effectPending>>
        /\ lastDocEvent' = [kind |-> "settled", before |-> markdownFiles, batch |-> batch]
        /\ UNCHANGED <<isPresenting, draggingItem, dragOverItem>>
        /\ UNCHANGED <<slides, currentSlideIndex>>
        /\ UNCHANGED <<vpVars, assetVars>>

\* handleDeleteMarkdownFile; the list unmounts with its last file
handleDeleteMarkdownFile(fileId) ==
    /\ ~isPresenting /\ draggingItem = NoIndex
    /\ markdownFiles' = SelectSeq(markdownFiles, LAMBDA f : f.id # fileId)
    /\ dragOverItem' = IF markdownFiles' = <<>> THEN NoIndex ELSE dragOverItem
    /\ lastDocEvent' = NoDocEvent
    /\ UNCHANGED <<isPresenting, error, pendingReads, nextId, draggingItem>>
    /\ UNCHANGED <<slides, currentSlideIndex, effectPending>>
    /\ UNCHANGED <<vpVars, assetVars>>

\* handleDragStart on the item at index (from 0)
handleDragStart(index) ==
    /\ ~isPresenting /\ draggingItem = NoIndex
    /\ draggingItem' = index
    /\ lastDocEvent' = NoDocEvent
    /\ UNCHANGED <<isPresenting, error, pendingReads, nextId, dragOverItem>>
    /\ UNCHANGED <<vpVars, pvVars, assetVars>>

\* handleDragEnter on the item at index, in the course of a drag of the list
handleDragEnter(index) ==
    /\ ~isPresenting /\ draggingItem # NoIndex
    /\ dragOverItem' = index
    /\ lastDocEvent' = NoDocEvent
    /\ UNCHANGED <<isPresenting, error, pendingReads, nextId, draggingItem>>
    /\ UNCHANGED <<vpVars, pvVars, assetVars>>

\* filesCopy.splice(i, 1) and filesCopy.splice(j, 0, item) with the item
\* inserted one place further
moveItem_insertAfter(files, i, j) ==
    LET rest == removeAt(files, i + 1)
        at == IF j + 1 < Len(rest) THEN j + 1 ELSE Len(rest)
    IN  SubSeq(rest, 1, at) \o <<files[i + 1]>> \o SubSeq(rest, at + 1, Len(rest))

\* const filesCopy = [...files]; filesCopy.splice(i, 1); filesCopy.splice(j, 0,
\* item): splice takes a start beyond the length as the length
moveItem(files, i, j) ==
    LET rest == removeAt(files, i + 1)
        at == IF j < Len(rest) THEN j ELSE Len(rest)
    IN  SubSeq(rest, 1, at) \o <<files[i + 1]>> \o SubSeq(rest, at + 1, Len(rest))

\* handleDragEnd, onReorder being handleReorderMarkdownFiles; dragend follows
\* a dragstart of the list
handleDragEnd ==
    /\ ~isPresenting /\ draggingItem # NoIndex
    /\ IF draggingItem = NoIndex \/ dragOverItem = NoIndex \/ draggingItem = dragOverItem
       THEN UNCHANGED markdownFiles
       ELSE markdownFiles' = moveItem(markdownFiles, draggingItem, dragOverItem)
    /\ draggingItem' = NoIndex
    /\ dragOverItem' = NoIndex
    /\ lastDocEvent' = [kind |-> "reorder", before |-> markdownFiles,
                        i |-> draggingItem, j |-> dragOverItem]
    /\ UNCHANGED <<isPresenting, error, pendingReads, nextId>>
    /\ UNCHANGED <<slides, currentSlideIndex, effectPending>>
    /\ UNCHANGED <<vpVars, assetVars>>

\* handleStartPresentation (its button is disabled without documents): the
\* SetupView unmounts and the PresentationView mounts
handleStartPresentation ==
    /\ ~isPresenting /\ draggingItem = NoIndex
    /\ Len(markdownFiles) > 0
    /\ isPresenting' = TRUE
    /\ dragOverItem' = NoIndex
    /\ slides' = <<>>
    /\ currentSlideIndex' = 0
    /\ effectPending' = TRUE
    /\ lastDocEvent' = NoDocEvent
    /\ UNCHANGED <<markdownFiles, error, pendingReads, nextId, draggingItem>>
    /\ UNCHANGED <<vpVars, assetVars>>

\* handleExitPresentation: the PresentationView unmounts
handleExitPresentation ==
    /\ isPresenting /\ ~effectPending
    /\ isPresenting' = FALSE
    /\ slides' = <<>>
    /\ currentSlideIndex' = 0
    /\ lastDocEvent' = NoDocEvent
    /\ UNCHANGED <<markdownFiles, effectPending>>
    /\ UNCHANGED <<error, pendingReads, nextId, draggingItem, dragOverItem>>
    /\ UNCHANGED <<vpVars, assetVars>>

DocsInit ==
    /\ isPresenting = FALSE
    /\ error = NoError
    /\ pendingReads = <<>>
    /\ nextId = 1
    /\ draggingItem = NoIndex
    /\ dragOverItem = NoIndex
    /\ lastDocEvent = NoDocEvent

\* the App rendering a PresentationView
DocsPresenting ==
    /\ isPresenting = TRUE
    /\ error = NoError
    /\ pendingReads = <<>>
    /\ nextId = Len(markdownFiles) + 1
    /\ draggingItem = NoIndex
    /\ dragOverItem = NoIndex
    /\ lastDocEvent = NoDocEvent

DocsNext ==
    \/ \E files \in Uploads : handleMarkdownUpload(files)
    \/ \E n \in 1..Len(pendingReads) : readsSettle(n)
    \/ \E f \in {markdownFiles[i].id : i \in 1..Len(markdownFiles)} :
          handleDeleteMarkdownFile(f)
    \/ \E index \in 0..(Len(markdownFiles) - 1) : handleDragStart(index)
    \/ \E index \in 0..(Len(markdownFiles) - 1) : handleDragEnter(index)
    \/ handleDragEnd
    \/ handleStartPresentation
    \/ handleExitPresentation
    \/ slideEffect
    \/ goToPrevious
    \/ goToNext

----------------------------------------------------------------------------

\* no presentation is mounted
(* The keydown listeners on window: ImageZoomModal.tsx, PresentationView.tsx *)

\* KeyboardEvent.key of the keys pressed
Keys == {"Escape", "ArrowRight", " ", "ArrowLeft", "Enter"}

\* the listener of the ImageZoomModal, registered while the modal is mounted:
\* Escape calls onClose, which unmounts the modal
modalKeyDown(key) ==
    IF zoomedImageUrl # NoSrc /\ key = "Escape"
    THEN /\ zoomedImageUrl' = NoSrc
         /\ scale' = ROne
         /\ position' = Origin
         /\ isDragging' = FALSE
         /\ startDragPos' = Origin
         /\ dragStart' = NoDrag
         /\ UNCHANGED dims
    ELSE UNCHANGED <<zoomedImageUrl, dims, scale, position, isDragging, startDragPos, dragStart>>

\* a listener of the PresentationView that leaves the keys to the zoom view
\* while that is open
presentationKeyDown_notWhileZoomed(key) ==
    IF ~isPresenting \/ zoomedImageUrl # NoSrc
    THEN UNCHANGED <<slides, currentSlideIndex, isPresenting>>
    ELSE IF key = "ArrowRight" \/ key = " "
    THEN /\ currentSlideIndex' = IF Len(slides) - 1 < currentSlideIndex + 1
                                 THEN Len(slides) - 1 ELSE currentSlideIndex + 1
         /\ UNCHANGED <<slides, isPresenting>>
    ELSE IF key = "ArrowLeft"
    THEN /\ currentSlideIndex' = IF currentSlideIndex - 1 > 0 THEN currentSlideIndex - 1 ELSE 0
         /\ UNCHANGED <<slides, isPresenting>>
    ELSE IF key = "Escape"
    THEN /\ isPresenting' = FALSE
         /\ slides' = <<>>
         /\ currentSlideIndex' = 0
    ELSE UNCHANGED <<slides, currentSlideIndex, isPresenting>>

\* the listener of the PresentationView, registered while it is mounted:
\* ArrowRight and Space call goToNext, ArrowLeft goToPrevious, Escape onExit,
\* which unmounts the PresentationView
presentationKeyDown(key) ==
    IF ~isPresenting
    THEN UNCHANGED <<slides, currentSlideIndex, isPresenting>>
    ELSE IF key = "ArrowRight" \/ key = " "
    THEN /\ currentSlideIndex' = IF Len(slides) - 1 < currentSlideIndex + 1
                                 THEN Len(slides) - 1 ELSE currentSlideIndex + 1
         /\ UNCHANGED <<slides, isPresenting>>
    ELSE IF key = "ArrowLeft"
    THEN /\ currentSlideIndex' = IF currentSlideIndex - 1 > 0 THEN currentSlideIndex - 1 ELSE 0
         /\ UNCHANGED <<slides, isPresenting>>
    ELSE IF key = "Escape"
    THEN /\ isPresenting' = FALSE
         /\ slides' = <<>>
         /\ currentSlideIndex' = 0
    ELSE UNCHANGED <<slides, currentSlideIndex, isPresenting>>

\* a keydown event on window: every listener registered is called with it;
\* pending effects run before the event is handled
keyDown(key) ==
    /\ ~effectPending
    /\ modalKeyDown(key)
    /\ presentationKeyDown(key)
    /\ lastEvent' = NoEvent
    /\ lastDocEvent' = [kind |-> "key", key |-> key,
                        zoomed |-> zoomedImageUrl # NoSrc, presenting |-> isPresenting,
                        fromIndex |-> currentSlideIndex]
    /\ UNCHANGED <<markdownFiles, effectPending>>
    /\ UNCHANGED <<error, pendingReads, nextId, draggingItem, dragOverItem>>
    /\ UNCHANGED assetVars

\* the decks loaded in the setup view: one document each
KeyDecks == {deck \in Decks : Len(deck) = 1}

\* the setup view with a deck loaded
KeysInit ==
    /\ \E deck \in KeyDecks : markdownFiles = filesOf(deck)
    /\ slides = <<>>
    /\ currentSlideIndex = 0
    /\ effectPending = FALSE
    /\ isPresenting = FALSE
    /\ error = NoError
    /\ pendingReads = <<>>
    /\ nextId = Len(markdownFiles) + 1
    /\ draggingItem = NoIndex
    /\ dragOverItem = NoIndex
    /\ lastDocEvent = NoDocEvent

KeysNext ==
    \/ handleStartPresentation
    \/ slideEffect
    \/ OpenZoom
    \/ \E key \in Keys : keyDown(key)

----------------------------------------------------------------------------

PresentationIdle ==
    /\ markdownFiles = <<>>
    /\ slides = <<>>
    /\ currentSlideIndex = 0
    /\ effectPending = FALSE

\* the image zoom view and its pointer, wheel and button events
InitViewport == ViewportInit /\ PresentationIdle /\ AssetsInit /\ DocsInit
SpecViewport == InitViewport /\ [][ViewportNext]_vars

\* the presentation mounted with a deck: its slide generation
InitSlides == ViewportInit /\ PresentationInit /\ AssetsInit /\ DocsPresenting
SpecSlides == InitSlides /\ [][PresentationNext]_vars

\* asset uploads and deletions
InitAssets == ViewportInit /\ PresentationIdle /\ AssetsInit /\ DocsInit
SpecAssets == InitAssets /\ [][AssetsNext]_vars

\* document uploads, deletions and reorders, and the presentation of them
InitDocs == ViewportInit /\ PresentationIdle /\ AssetsInit /\ DocsInit
SpecDocs == InitDocs /\ [][DocsNext]_vars

\* key presses in the setup view and in the presentation, with the image
\* zoom view open or closed
InitKeys == ViewportInit /\ KeysInit /\ AssetsInit
SpecKeys == InitKeys /\ [][KeysNext]_vars

----------------------------------------------------------------------------
(* Properties of the viewport *)

ZoomOpen == zoomedImageUrl # NoSrc

\* the overhang of an image side of length imageDim drawn at scale s in a
\* container side of length containerDim
Overhang(imageDim, containerDim, s) ==
    LET excess == RSub(RMul(RInt(imageDim), s), RInt(containerDim))
    IN  IF RLt(RZero, excess) THEN RDiv(excess, RInt(2)) ELSE RZero

\* C1: after any sequence of wheel zooms, button zooms, pointer events and
\* resets, 0.5 <= scale <= 8 and on each axis
\* |offset| <= max(0, (imageDimension * scale - containerDimension) / 2).
C1_ViewportBounds ==
    ZoomOpen =>
        /\ RLe(<<1, 2>>, scale) /\ RLe(scale, <<8, 1>>)
        /\ RLe(RAbs(position.x), Overhang(dims.iw, dims.cw, scale))
        /\ RLe(RAbs(position.y), Overhang(dims.ih, dims.ch, scale))

\* C1 witness: in a drag the image is panned onto its bound on the x axis
\* while the y axis, where the image does not exceed the container, stays 0.
C1_Witness ==
    /\ ZoomOpen /\ isDragging
    /\ RLt(RZero, position.x)
    /\ position.x = Overhang(dims.iw, dims.cw, scale)
    /\ Overhang(dims.ih, dims.ch, scale) = RZero /\ position.y = RZero

\* C4: the viewport moves from idle to dragging only on a press of the
\* primary button while scale > 1; a press of any button while scale <= 1 and
\* a press of a non-primary button at any scale leave it idle.
C4_DragOnlyPrimaryZoomed ==
    [][ \A b \in Buttons, p \in Pointers :
            (handleMouseDown(b, p.x, p.y) /\ ~isDragging) =>
                (isDragging' <=> (b = 0 /\ RLt(ROne, scale))) ]_vars

\* C5: whenever scale <= 1, pointer movement (after whatever press) does not
\* change the offset.
C5_NoPanAtNativeScale ==
    [][ \A p \in Pointers :
            (handleMouseMove(p.x, p.y) /\ RLe(scale, ROne)) => position' = position ]_vars

\* the offset a zoom around anchor a computes before clamping, for the step
\* from scale to scale'
rawOffset(a) ==
    Point(zoomAround(a.x, position.x, scale, scale'),
          zoomAround(a.y, position.y, scale, scale'))

AnchorStationary(a) ==
    position' = rawOffset(a) =>
        imagePointAt(a, position', scale') = imagePointAt(a, position, scale)

\* C6: for a wheel zoom anchored at the cursor and a button zoom anchored at
\* the container centre, when clamping does not alter the computed offset the
\* image point displayed under the anchor before the zoom is displayed under
\* it after the zoom.
C6_AnchorStationary ==
    [][ /\ \A d \in DeltaYs, p \in Pointers :
              handleWheel(d, p.x, p.y) =>
                  AnchorStationary(Point(RInt(p.x - dims.left), RInt(p.y - dims.top)))
        /\ \A dir \in {"in", "out"} :
              handleZoom(dir) => AnchorStationary(containerCenter) ]_vars

ZoomPair == lastEvent.kind = "zoom" /\ lastEvent.pairFrom # NoScale

\* C7 as claimed: from every reachable scale a zoom-in press followed by a
\* zoom-out press, and a zoom-out press followed by a zoom-in press, returns
\* scale to its value before the pair.
C7_ZoomPairRestoresScale ==
    ZoomPair => scale = lastEvent.pairFrom

\* the first press of the pair, started at scale s, stays inside [0.5, 8]
FirstPressUnclamped ==
    LET s == lastEvent.pairFrom
        first == IF lastEvent.dir = "out" THEN <<5, 4>> ELSE <<4, 5>>
    IN  RLe(<<1, 2>>, RMul(s, first)) /\ RLe(RMul(s, first), <<8, 1>>)

\* C7 amended: the pair returns scale to its value before the pair when the
\* first press is not cut off by the scale limits (scale * 1.25 <= 8 for
\* in-then-out, scale * 0.8 >= 0.5 for out-then-in).
C7_ZoomPairRestoresUnclamped ==
    (ZoomPair /\ FirstPressUnclamped) => scale = lastEvent.pairFrom

\* C7 witness: a pair of presses started away from scale 1 has come back.
C7_Witness ==
    /\ ZoomPair /\ FirstPressUnclamped
    /\ lastEvent.pairFrom # ROne
    /\ scale = lastEvent.pairFrom

\* C8: reset and a change of the viewed image each set scale = 1 and
\* offset = (0,0) from every prior state, idle or dragging, and a newly
\* opened zoom view starts in that state.
C8_ResetState ==
    lastEvent.kind \in {"reset", "src", "open"} =>
        scale = ROne /\ position = Origin

\* C8 witness: a reset in the middle of a drag, from a zoomed view.
C8_Witness ==
    /\ lastEvent.kind = "reset"
    /\ lastEvent.from # ROne
    /\ isDragging

----------------------------------------------------------------------------
(* Properties of the asset table *)

UrlsCreated == 1..(nextUrl - 1)
UrlStored(u) == \E k \in AssetKeys : assetMap[k] = u

\* C2: over any sequence of asset uploads and deletions, the object URL of a
\* key that was replaced or deleted has been revoked, and no object URL is
\* ever revoked more than once.
C2_ReleasedExactlyOnce ==
    \A u \in UrlsCreated :
        /\ revoked[u] <= 1
        /\ (appMounted /\ ~UrlStored(u)) => revoked[u] = 1

\* C21: while the application is mounted, after any sequence of asset uploads
\* and deletions, no object URL stored in the asset table has been revoked.
C21_StoredNotRevoked ==
    appMounted => \A u \in UrlsCreated : UrlStored(u) => revoked[u] = 0

----------------------------------------------------------------------------
(* Properties of the slide generation *)

Blank(text) == \A i \in 1..Len(text) : text[i] \in {" ", "\t", "\n", "\r"}

\* a line of text starts at index i (from 1) with "# " or "## "
HeadingLineAt(text, i) ==
    /\ i = 1 \/ text[i - 1] = "\n"
    /\ \/ i + 1 <= Len(text) /\ text[i] = "#" /\ text[i + 1] = " "
       \/ i + 2 <= Len(text) /\ text[i] = "#" /\ text[i + 1] = "#" /\ text[i + 2] = " "

Contents == [i \in 1..Len(markdownFiles) |-> markdownFiles[i].content]

\* the documents' contents in order, a blank line ("\n\n") between them
RECURSIVE Concatenation(_)
Concatenation(contents) ==
    IF contents = <<>> THEN <<>>
    ELSE IF Len(contents) = 1 THEN contents[1]
    ELSE contents[1] \o <<"\n", "\n">> \o Concatenation(Tail(contents))

\* the content begins with a heading line and holds no other
HeadingDocument(content) ==
    /\ HeadingLineAt(content, 1)
    /\ \A i \in 2..Len(content) : ~HeadingLineAt(content, i)

\* C3 as claimed: when every document begins with a level-1 or level-2
\* heading line and holds no other, the slides are the documents' contents,
\* one per document, in order, character for character.
C3_OneSlidePerDocument ==
    (~effectPending /\ \A i \in 1..Len(Contents) : HeadingDocument(Contents[i]))
        => slides = Contents

\* C3 amended: under the same condition there is one slide per document, in
\* order; the last slide is the last document's content and every other
\* slide is its document's content followed by the separator "\n\n".
C3_OneSlidePerDocumentWithSeparator ==
    (~effectPending /\ \A i \in 1..Len(Contents) : HeadingDocument(Contents[i]))
        => /\ Len(slides) = Len(Contents)
           /\ \A i \in 1..Len(Contents) :
                slides[i] = IF i < Len(Contents)
                            THEN Contents[i] \o <<"\n", "\n">> ELSE Contents[i]

\* C3 witness: the documents "# A\ntext1" and "## B\ntext2" have been
\* segmented into "# A\ntext1\n\n" and "## B\ntext2".
C3_Witness ==
    /\ ~effectPending
    /\ Contents = << <<"#", " ", "A", "\n", "t", "e", "x", "t", "1">>,
                     <<"#", "#", " ", "B", "\n", "t", "e", "x", "t", "2">> >>
    /\ slides = << <<"#", " ", "A", "\n", "t", "e", "x", "t", "1", "\n", "\n">>,
                   <<"#", "#", " ", "B", "\n", "t", "e", "x", "t", "2">> >>

\* C9: when the concatenated text is not blank and no line of it starts with
\* a level-1 or level-2 heading marker, there is exactly one slide, the whole
\* concatenated text.
C9_NoHeadingOneSlide ==
    LET text == Concatenation(Contents)
    IN  (/\ ~effectPending
         /\ ~Blank(text)
         /\ \A i \in 1..Len(text) : ~HeadingLineAt(text, i))
            => slides = <<text>>

\* C9 witness: the single document "no headings here" is the single slide.
C9_Witness ==
    /\ ~effectPending
    /\ Contents = << <<"n", "o", " ", "h", "e", "a", "d", "i", "n", "g", "s", " ",
                       "h", "e", "r", "e">> >>
    /\ slides = Contents

\* C10: no slide is empty or whitespace-only, and when every document is
\* blank (or there is none) there is no slide.
C10_NoBlankSlide ==
    ~effectPending =>
        /\ \A i \in 1..Len(slides) : ~Blank(slides[i])
        /\ (\A i \in 1..Len(Contents) : Blank(Contents[i])) => slides = <<>>

\* C10 witness: two blank documents, not both empty, have produced no slide.
C10_Witness ==
    /\ ~effectPending
    /\ Len(Contents) = 2
    /\ \A i \in 1..2 : Blank(Contents[i])
    /\ Contents[1] # <<>>
    /\ slides = <<>>

\* the concatenated document text
Text == Concatenation(Contents)

RECURSIVE LenFrom(_, _)
\* the length of the slides from the k-th on
LenFrom(ss, k) == IF k > Len(ss) THEN 0 ELSE Len(ss[k]) + LenFrom(ss, k + 1)

\* the index (from 0) in Text at which slide k starts, the slides being laid
\* end to end so that the last one ends where Text ends
SlideStart(k) == Len(Text) - LenFrom(slides, k)

\* laid out so, every slide is the piece of Text at its place
SlidesAreSuffix ==
    /\ SlideStart(1) >= 0
    /\ \A k \in 1..Len(slides) :
          slides[k] = SubSeq(Text, SlideStart(k) + 1, SlideStart(k) + Len(slides[k]))

\* C11: a slide begins only at the start of the text or at the start of a
\* line that begins with one or two '#' and then a space; three or more '#',
\* a '#' run without a space after it and a '#' past the first column never
\* begin a slide.
C11_BoundaryOnlyAtHeadingLine ==
    ~effectPending =>
        /\ SlidesAreSuffix
        /\ \A k \in 1..Len(slides) :
              SlideStart(k) = 0 \/ HeadingLineAt(Text, SlideStart(k) + 1)

\* C11 witness: "a\n### b\n#c\nd # e\n## f" is cut once, before "## f".
C11_Witness ==
    /\ ~effectPending
    /\ Contents = << <<"a", "\n", "#", "#", "#", " ", "b", "\n", "#", "c", "\n", "d", " ", "#", " ", "e", "\n", "#", "#", " ", "f">> >>
    /\ Len(slides) = 2
    /\ slides[2] = <<"#", "#", " ", "f">>

----------------------------------------------------------------------------
(* Properties of the documents *)

ContentsOf(files) == [i \in 1..Len(files) |-> files[i].content]

\* a batch has just settled
Settled == lastDocEvent.kind = "settled"

\* C12: when the reads of an upload batch have settled, every file that was
\* read successfully has been appended as a document, in order, also when
\* another file of the batch failed, and a failed read has been reported.
C12_EveryReadFileAdded ==
    Settled =>
        LET batch == lastDocEvent.batch
            read == SelectSeq(batch, LAMBDA file : file.readable)
        IN  /\ Contents = ContentsOf(lastDocEvent.before) \o ContentsOf(read)
            /\ (\E i \in 1..Len(batch) : ~batch[i].readable) => error = ReadError

----------------------------------------------------------------------------
(* Properties of the slide on display *)

\* a slide is on display
SlideShown ==
    isPresenting /\ ~effectPending /\ currentSlideIndex + 1 \in 1..Len(slides)

ShownSlide == slides[currentSlideIndex + 1]

\* with the whitespace around it taken off, text begins with one '#' and a
\* space: the first character that is not whitespace is a '#', a space
\* follows it and something other than whitespace follows that
TrimmedBeginsLevelOne(text) ==
    \E i \in 1..Len(text) :
        /\ \A k \in 1..(i - 1) : text[k] \in {" ", "\t", "\n", "\r"}
        /\ text[i] = "#"
        /\ i + 1 <= Len(text) /\ text[i + 1] = " "
        /\ \E m \in (i + 2)..Len(text) : text[m] \notin {" ", "\t", "\n", "\r"}

\* C13: the slide on display is title-styled exactly when its content, with
\* the whitespace around it trimmed, begins with one '#' and a space; a
\* slide that begins with "## " is not title-styled.
C13_TitleStyle ==
    SlideShown =>
        /\ isTitleSlide <=> TrimmedBeginsLevelOne(ShownSlide)
        /\ (Len(ShownSlide) >= 3 /\ SubSeq(ShownSlide, 1, 3) = <<"#", "#", " ">>)
              => ~isTitleSlide

\* C13 witness: a title-styled slide whose "# " comes after leading space.
C13_Witness ==
    /\ SlideShown
    /\ isTitleSlide
    /\ ShownSlide[1] = " "

----------------------------------------------------------------------------
(* Properties of the segmentation as a partition *)

\* the indices (from 1) of Text at which a line starts with "# " or "## "
HeadingLines == {i \in 1..Len(Text) : HeadingLineAt(Text, i)}

\* the part of Text before its first heading line (all of it without one)
Leading ==
    IF HeadingLines = {} THEN Text
    ELSE SubSeq(Text, 1, (CHOOSE i \in HeadingLines : \A h \in HeadingLines : i <= h) - 1)

\* C14: segmentation is a split-before partition.  Every heading line of
\* the concatenated text begins a slide; every slide but possibly the first
\* begins with a heading line; the slides are consecutive pieces of the
\* text which, after a discarded blank leading piece, make up the text; and
\* there are as many slides as heading lines, plus one when non-blank text
\* precedes the first heading line.
C14_SplitBeforePartition ==
    ~effectPending =>
        /\ \A i \in HeadingLines : \E k \in 1..Len(slides) : SlideStart(k) = i - 1
        /\ \A k \in 2..Len(slides) : SlideStart(k) + 1 \in HeadingLines
        /\ SlidesAreSuffix
        /\ Blank(SubSeq(Text, 1, SlideStart(1)))
        /\ Len(slides) = Cardinality(HeadingLines) + (IF Blank(Leading) THEN 0 ELSE 1)

\* the slides are the pieces of the current Text that begin at its heading
\* lines, and before them its leading part when that is not blank
SlidesOfCurrentText ==
    /\ SlidesAreSuffix
    /\ {SlideStart(k) : k \in 1..Len(slides)} =
          {i - 1 : i \in HeadingLines} \cup (IF Blank(Leading) THEN {} ELSE {0})
    /\ \A k \in 1..Len(slides) : slides[k] # <<>>

\* C14 witness: non-blank text before the first heading line is the first
\* slide and a heading line begins the second.
C14_Witness ==
    /\ ~effectPending
    /\ ~Blank(Leading) /\ HeadingLines # {}
    /\ Len(slides) = Cardinality(HeadingLines) + 1
    /\ slides[1] = Leading

----------------------------------------------------------------------------
(* Properties of the concatenation *)

RECURSIVE DocStart(_)
\* the index (from 0) in Text of the first character of document i, the
\* documents being "\n\n" apart
DocStart(i) == IF i = 1 THEN 0 ELSE DocStart(i - 1) + Len(Contents[i - 1]) + 2

\* C15: the slides are pieces of the documents' contents concatenated in
\* order with "\n\n" between them, and for every document after the first
\* whose content begins with "# " or "## " a slide begins at that document's
\* first character, whatever the document before it ends with.
C15_SlideAtDocumentStart ==
    ~effectPending =>
        /\ SlidesAreSuffix
        /\ \A i \in 2..Len(Contents) :
              HeadingLineAt(Contents[i], 1) =>
                  \E k \in 1..Len(slides) : SlideStart(k) = DocStart(i)

\* C15 witness: a document ending in '#' is followed by a document beginning
\* with a heading marker, where a slide begins.
C15_Witness ==
    /\ ~effectPending
    /\ Len(Contents) = 2
    /\ Contents[1] # <<>> /\ Contents[1][Len(Contents[1])] = "#"
    /\ HeadingLineAt(Contents[2], 1)
    /\ Len(slides) = 2 /\ SlideStart(2) = DocStart(2)

----------------------------------------------------------------------------
(* Properties of the drag *)

\* v held within [-bound, bound]
Within(v, bound) ==
    IF RLt(bound, v) THEN bound ELSE IF RLt(v, RNeg(bound)) THEN RNeg(bound) ELSE v

\* the offset o0 + (p - p0) of the drag in progress for the pointer at p,
\* clamped to the overhang at scale s
DragOffset(p, s) ==
    LET o0 == dragStart.offset
        p0 == dragStart.pointer
    IN  Point(Within(RAdd(o0.x, RSub(p.x, p0.x)), Overhang(dims.iw, dims.cw, s)),
              Within(RAdd(o0.y, RSub(p.y, p0.y)), Overhang(dims.ih, dims.ch, s)))

\* C16: in a drag begun with the pointer at p0 and the offset o0, a pointer
\* movement to p sets the offset to o0 + (p - p0) clamped for the current
\* scale, also after zooms changed the offset in the course of the drag;
\* with no drag in progress (none begun, or after release or leave) a
\* pointer movement leaves the offset as it is.
C16_DragLockstep ==
    [][ \A p \in Pointers :
            handleMouseMove(p.x, p.y) =>
                IF dragStart # NoDrag
                THEN position' = DragOffset(Point(RInt(p.x), RInt(p.y)), scale)
                ELSE position' = position ]_vars

\* C16 witness: in a drag, after a zoom moved the image, a pointer movement
\* has put the image away from where the drag began.
C16_Witness ==
    /\ isDragging
    /\ dragStart # NoDrag /\ dragStart.phase = "movedAfterZoom"
    /\ position # dragStart.offset

----------------------------------------------------------------------------
(* Properties of the reorder *)

\* a drag of the document list has just ended
Reordered == lastDocEvent.kind = "reorder"

\* s without its k-th element (k from 1)
Without(s, k) == [n \in 1..(Len(s) - 1) |-> IF n < k THEN s[n] ELSE s[n + 1]]

\* C17: a drag that ends with source index i and drop index j, both set and
\* different, leaves the dragged document at index j and the other documents
\* in their order, none lost or duplicated; with i = j or an index unset the
\* sequence is as before; either way the drag indices are cleared.
C17_ReorderMovesOne ==
    Reordered =>
        LET before == lastDocEvent.before
            i == lastDocEvent.i
            j == lastDocEvent.j
        IN  /\ draggingItem = NoIndex /\ dragOverItem = NoIndex
            /\ IF i = -1 \/ j = -1 \/ i = j
               THEN markdownFiles = before
               ELSE /\ Len(markdownFiles) = Len(before)
                    /\ markdownFiles[j + 1] = before[i + 1]
                    /\ Without(markdownFiles, j + 1) = Without(before, i + 1)

\* C17 witness: the first of three documents has been dragged to the end.
C17_Witness ==
    /\ Reordered
    /\ Len(lastDocEvent.before) = 3
    /\ lastDocEvent.i = 0 /\ lastDocEvent.j = 2
    /\ markdownFiles[3] = lastDocEvent.before[1]

----------------------------------------------------------------------------
(* Properties of the append *)

\* every read of the batch that has just settled succeeded
BatchRead ==
    Settled /\ \A i \in 1..Len(lastDocEvent.batch) : lastDocEvent.batch[i].readable

\* C18: whatever uploads (several in flight at once), deletions and reorders
\* came before, a batch whose reads all succeeded is appended at the end in
\* its file order; the documents present before are still there, in their
\* order, and no document occurs twice.
C18_AppendAtEnd ==
    BatchRead =>
        LET before == lastDocEvent.before
            batch == lastDocEvent.batch
            n == Len(lastDocEvent.before)
        IN  /\ Len(markdownFiles) = n + Len(batch)
            /\ \A i \in 1..n : markdownFiles[i] = before[i]
            /\ \A i \in 1..Len(batch) : markdownFiles[n + i].content = batch[i].content
            /\ \A a, b \in 1..Len(markdownFiles) :
                  markdownFiles[a].id = markdownFiles[b].id => a = b

\* C18 witness: a batch of two different files has been appended to a
\* sequence that was not empty, while another batch is still being read.
C18_Witness ==
    /\ BatchRead
    /\ Len(lastDocEvent.batch) = 2
    /\ lastDocEvent.batch[1].content # lastDocEvent.batch[2].content
    /\ pendingReads # <<>>
    /\ Len(lastDocEvent.before) >= 1

----------------------------------------------------------------------------
(* Properties of the recomputation *)

\* the slide effect has just run
EffectRan == lastDocEvent.kind = "effect"

\* C19: whenever the documents of a presentation change the slides are
\* computed anew from all of them and the current slide index is set to 0:
\* once the effect has run the slides are those of the current documents,
\* and right after it has run the index is 0.
C19_RecomputedOnChange ==
    /\ (isPresenting /\ ~effectPending) => SlidesOfCurrentText
    /\ EffectRan => currentSlideIndex = 0

\* C19 witness: documents arrived while a later slide was on display; the
\* slides are those of the longer sequence and the first one is on display.
C19_Witness ==
    /\ isPresenting /\ EffectRan
    /\ lastDocEvent.fromIndex > 0
    /\ currentSlideIndex = 0
    /\ Len(slides) >= 3

----------------------------------------------------------------------------
(* Properties of the image references *)

\* the reference starts with "http://", "https://" or "//"
AbsoluteRef(r) ==
    \/ Len(r) >= 2 /\ SubSeq(r, 1, 2) = <<"/", "/">>
    \/ Len(r) >= 7 /\ SubSeq(r, 1, 7) = <<"h", "t", "t", "p", ":", "/", "/">>
    \/ Len(r) >= 8 /\ SubSeq(r, 1, 8) = <<"h", "t", "t", "p", "s", ":", "/", "/">>

DataRef(r) == Len(r) >= 5 /\ SubSeq(r, 1, 5) = <<"d", "a", "t", "a", ":">>

\* the reference without one leading "./"
LookupKey(r) ==
    IF Len(r) >= 2 /\ r[1] = "." /\ r[2] = "/" THEN SubSeq(r, 3, Len(r)) ELSE r

Stored(key) == key \in AssetKeys /\ assetMap[key] # NoUrl

\* C20: an image reference that is neither absolute nor a data: URI is
\* looked up in the asset table without one leading "./" and replaced by the
\* stored object URL when the key is there, left as written otherwise;
\* absolute and data: references are left as written even when the table
\* has such a key; rendering an image leaves the table as it is.
C20_ReferenceResolution ==
    /\ [](shownImg # NoImg =>
            IF ~AbsoluteRef(shownImg.ref) /\ ~DataRef(shownImg.ref)
                  /\ Stored(LookupKey(shownImg.ref))
            THEN shownImg.src = [blob |-> assetMap[LookupKey(shownImg.ref)]]
            ELSE shownImg.src = [written |-> shownImg.ref])
    /\ [][\A r \in Refs : renderImg(r) => assetMap' = assetMap]_vars

\* C20 witness: "./a" is shown as the object URL stored under "a" while the
\* table also holds the key "data:a".
C20_Witness ==
    /\ shownImg # NoImg
    /\ shownImg.ref = <<".", "/", "a">>
    /\ assetMap[<<"a">>] # NoUrl
    /\ shownImg.src = [blob |-> assetMap[<<"a">>]]
    /\ assetMap[<<"d", "a", "t", "a", ":", "a">>] # NoUrl


----------------------------------------------------------------------------
(* Properties of the fallback *)

\* the indices (from 0) of Text at which a piece of the split begins: its
\* start and the starts of its heading lines
CutPoints == {0} \cup {i - 1 : i \in HeadingLines}

\* the piece of Text that begins at cut point c: up to the next cut point,
\* or to the end of Text
PieceAt(c) ==
    LET later == {d \in CutPoints : d > c}
        end == IF later = {} THEN Len(Text)
               ELSE CHOOSE d \in later : \A e \in later : d <= e
    IN  SubSeq(Text, c + 1, end)

RECURSIVE PiecesFrom(_)
\* the pieces of Text from cut point c on, in order
PiecesFrom(c) ==
    LET later == {d \in CutPoints : d > c}
    IN  IF later = {} THEN <<PieceAt(c)>>
        ELSE <<PieceAt(c)>> \o PiecesFrom(CHOOSE d \in later : \A e \in later : d <= e)

\* Text split before its heading lines, the blank pieces discarded
FilteredSplit == SelectSeq(PiecesFrom(0), LAMBDA piece : ~Blank(piece))

\* C23: the fallback branch of the segmentation never sets the slides: when
\* the concatenated text is not blank, the split before heading lines with
\* its blank pieces discarded is not empty, and the slides always are that
\* filtered split.
C23_FallbackNeverDecides ==
    lastDocEvent.kind = "effect" =>
        /\ lastDocEvent.branch # "fallback"
        /\ ~Blank(Text) => FilteredSplit # <<>>
        /\ slides = FilteredSplit

\* C23 witness: a text that is not blank and has no heading line has been
\* segmented by the split branch into one slide, the whole text.
C23_Witness ==
    /\ lastDocEvent.kind = "effect"
    /\ ~Blank(Text) /\ HeadingLines = {}
    /\ lastDocEvent.branch = "split"
    /\ slides = <<Text>>

----------------------------------------------------------------------------
(* Properties of the slide navigation *)

\* C22: after any sequence of next and previous actions and slide
\* recomputations, the current slide index is at least 0 and, when there is
\* at least one slide, at most totalSlides - 1; also with zero slides.
C22_IndexInRange ==
    /\ currentSlideIndex >= 0
    /\ Len(slides) > 0 => currentSlideIndex <= Len(slides) - 1


----------------------------------------------------------------------------
(* Properties of the key listeners *)

ZoomOverPresentation == zoomedImageUrl # NoSrc /\ isPresenting

\* C24: while the image zoom view is open over a running presentation, one
\* Escape key press closes the zoom view and exits the presentation as well,
\* and ArrowRight, Space and ArrowLeft still change the current slide: the
\* first two go to the next slide unless the last one is shown, the third to
\* the previous one unless the first is shown; the zoom view stays open.
C24_BothListenersHandle ==
    [][ ZoomOverPresentation =>
          /\ keyDown("Escape") => zoomedImageUrl' = NoSrc /\ ~isPresenting'
          /\ \A key \in {"ArrowRight", " "} :
                (keyDown(key) /\ currentSlideIndex < Len(slides) - 1)
                    => /\ currentSlideIndex' = currentSlideIndex + 1
                       /\ zoomedImageUrl' = zoomedImageUrl /\ isPresenting'
          /\ (keyDown("ArrowLeft") /\ currentSlideIndex > 0)
                => /\ currentSlideIndex' = currentSlideIndex - 1
                   /\ zoomedImageUrl' = zoomedImageUrl /\ isPresenting' ]_vars

\* C24 witness: Escape has just been pressed with the zoom view open over
\* the presentation showing its second slide; the zoom view is closed and
\* the presentation has been left.
C24_Witness ==
    /\ lastDocEvent.kind = "key" /\ lastDocEvent.key = "Escape"
    /\ lastDocEvent.zoomed /\ lastDocEvent.presenting
    /\ lastDocEvent.fromIndex = 1
    /\ zoomedImageUrl = NoSrc
    /\ ~isPresenting

====
